---- MODULE Spec2Model ----
(***************************************************************************)
(* handyman::math::vector -- Vec2D<I> and Vec3D<I>.                        *)
(*                                                                         *)
(* The scalar type I is modelled as a signed two's-complement integer of   *)
(* Width bits (the shape of i8/i16/i32/...).  Its arithmetic is the        *)
(* arithmetic of Rust's primitive integers: a result that does not fit     *)
(* panics when the build has overflow checks (the default of a debug       *)
(* build) and wraps modulo 2^Width otherwise (the default of a release     *)
(* build).  Which of the two the build does is fixed in Init.              *)
(*                                                                         *)
(* A vector is the sequence of its components: Vec2D(x, y) is <<x, y>>,    *)
(* self.0 is v[1], self.1 is v[2], self.2 is v[3].  The outcome of a call  *)
(* is a record [ok, val]: ok = FALSE is a panic that unwound out of the    *)
(* call, and val is then the empty tuple.                                  *)
(***************************************************************************)
EXTENDS Integers, Sequences, FiniteSets, TLC

VARIABLES overflow_checks, op, tuple, self, other, rhs, f, ret, calls

vars == <<overflow_checks, op, tuple, self, other, rhs, f, ret, calls>>

\* ------------------------------------------------------------------ bounds
Width == 4
MaxIn == 1

\* ------------------------------------------------------- the scalar type I
Pow2(n) == 2 ^ n

MinI == 0 - Pow2(Width - 1)
MaxI == Pow2(Width - 1) - 1

InRange(n) == MinI <= n /\ n <= MaxI

\* two's-complement wrap of a mathematical integer into MinI..MaxI
Wrap(n) == ((n - MinI) % Pow2(Width)) + MinI

Ok(x) == [ok |-> TRUE, val |-> x]
Panic == [ok |-> FALSE, val |-> <<>>]

\* the result of a primitive integer operation whose exact value is n
Checked(n) ==
    IF InRange(n) THEN Ok(n)
    ELSE IF overflow_checks THEN Panic
    ELSE Ok(Wrap(n))

ScalarZero == 0
ScalarOne == 1

ScalarAdd(x, y) == Checked(x + y)
ScalarSub(x, y) == Checked(x - y)
ScalarMul(x, y) == Checked(x * y)
ScalarNeg(x) == Checked(0 - x)

\* the values the calls are exercised on: both ends of the type, -1 and the
\* small values 0 .. MaxIn
Inputs == {MinI, MaxI} \cup ((0 - ScalarOne) .. MaxIn)
Flags == BOOLEAN

\* ------------------------------------------------- the closures passed as f
\* A closure is [name, rhs]: rhs is the scalar it captured (mul's |x| x * rhs).
\* n is the number of invocations made before this one, the only state an
\* FnMut closure of the model keeps; "count" returns it with its argument.
Closure(name) == [name |-> name, rhs |-> 0]
MulRhs(k) == [name |-> "mul_rhs", rhs |-> k]

Invoke1(fn, n, x) ==
    CASE fn.name = "mul_rhs" -> ScalarMul(x, fn.rhs)
      [] fn.name = "add_two" -> ScalarAdd(x, 2)
      [] fn.name = "count" -> Ok(<<n, x>>)

Invoke2(fn, n, x, y) ==
    CASE fn.name = "add" -> ScalarAdd(x, y)
      [] fn.name = "sub" -> ScalarSub(x, y)
      [] fn.name = "keep_if" -> Ok(IF y THEN x ELSE ScalarZero)
      [] fn.name = "count" -> Ok(<<n, x, y>>)

Invoke(fn, n, a) ==
    IF Len(a) = 1 THEN Invoke1(fn, n, a[1]) ELSE Invoke2(fn, n, a[1], a[2])

UnaryFns == {Closure("add_two"), Closure("count")}
BinaryFns == {Closure("sub"), Closure("count")}

\* A tuple-struct expression Vec(f(a1), f(a2), ...): Rust evaluates the
\* operands left to right, and a panic in one of them unwinds before the
\* later ones are evaluated.  args is the sequence of argument lists, done
\* the components already built, log the invocations already made.
RECURSIVE Construct(_, _, _, _)
Construct(fn, args, done, log) ==
    IF args = <<>> THEN [ok |-> TRUE, val |-> done, calls |-> log]
    ELSE LET r == Invoke(fn, Len(log), Head(args))
         IN IF r.ok
            THEN Construct(fn, Tail(args), Append(done, r.val),
                           Append(log, Head(args)))
            ELSE [ok |-> FALSE, val |-> <<>>, calls |-> Append(log, Head(args))]

Outcome(e) == [ok |-> e.ok, val |-> e.val]

\* ------------------------------------------------------------------ Vec2D
Vec2D(x, y) == <<x, y>>

Vec2D_from_tuple(t) == Vec2D(t[1], t[2])

Vec2D_x(v) == v[1]
Vec2D_y(v) == v[2]

\* mutation: f(self.0) written for both components
Vec2D_apply_eval_dup(v, fn) == Construct(fn, << <<v[1]>>, <<v[1]>> >>, <<>>, <<>>)
Vec2D_apply_eval(v, fn) == Construct(fn, << <<v[1]>>, <<v[2]>> >>, <<>>, <<>>)
Vec2D_apply(v, fn) == Outcome(Vec2D_apply_eval(v, fn))

Vec2D_zip_with_eval(v, o, fn) ==
    Construct(fn, << <<v[1], o[1]>>, <<v[2], o[2]>> >>, <<>>, <<>>)
Vec2D_zip_with(v, o, fn) == Outcome(Vec2D_zip_with_eval(v, o, fn))

\* mutation: zero() built from I::zero() and I::one()
Vec2D_zero_mixed == Vec2D(ScalarZero, ScalarOne)
Vec2D_zero == Vec2D(ScalarZero, ScalarZero)
Vec2D_one == Vec2D(ScalarOne, ScalarOne)

\* mutation: the closure adds rhs instead of multiplying by it
Vec2D_mul_plus(v, k) == Vec2D_zip_with(v, Vec2D(k, k), Closure("add"))
Vec2D_mul(v, k) == Vec2D_apply(v, MulRhs(k))

\* mutation: self * I::one(), the .neg() left out
Vec2D_neg_one(v) == Vec2D_mul(v, ScalarOne)
Vec2D_neg(v) ==
    LET m == ScalarNeg(ScalarOne)
    IN IF m.ok THEN Vec2D_mul(v, m.val) ELSE Panic

\* mutation: zip_with(rhs, I::sub)
Vec2D_add_sub(v, o) == Vec2D_zip_with(v, o, Closure("sub"))
Vec2D_add(v, o) == Vec2D_zip_with(v, o, Closure("add"))

\* ------------------------------------------------------------------ Vec3D
Vec3D(x, y, z) == <<x, y, z>>

\* mutation: the last two components exchanged
Vec3D_from_tuple_swapped(t) == Vec3D(t[1], t[3], t[2])
Vec3D_from_tuple(t) == Vec3D(t[1], t[2], t[3])

Vec3D_x(v) == v[1]
Vec3D_y(v) == v[2]
Vec3D_z(v) == v[3]

\* mutation: the components are transformed last to first (the vector built
\* is in position order)
Vec3D_apply_eval_rev(v, fn) ==
    LET e == Construct(fn, << <<v[3]>>, <<v[2]>>, <<v[1]>> >>, <<>>, <<>>)
    IN [ok |-> e.ok,
        val |-> IF e.ok THEN <<e.val[3], e.val[2], e.val[1]>> ELSE <<>>,
        calls |-> e.calls]
Vec3D_apply_eval(v, fn) ==
    Construct(fn, << <<v[1]>>, <<v[2]>>, <<v[3]>> >>, <<>>, <<>>)
Vec3D_apply(v, fn) == Outcome(Vec3D_apply_eval(v, fn))

\* mutation: f(other.i, self.i), the arguments exchanged
Vec3D_zip_with_eval_flipped(v, o, fn) ==
    Construct(fn, << <<o[1], v[1]>>, <<o[2], v[2]>>, <<o[3], v[3]>> >>,
              <<>>, <<>>)
Vec3D_zip_with_eval(v, o, fn) ==
    Construct(fn, << <<v[1], o[1]>>, <<v[2], o[2]>>, <<v[3], o[3]>> >>,
              <<>>, <<>>)
Vec3D_zip_with(v, o, fn) == Outcome(Vec3D_zip_with_eval(v, o, fn))

Vec3D_zero == Vec3D(ScalarZero, ScalarZero, ScalarZero)
Vec3D_one == Vec3D(ScalarOne, ScalarOne, ScalarOne)

\* mutation: the closure adds rhs instead of multiplying by it
Vec3D_mul_plus(v, k) == Vec3D_zip_with(v, Vec3D(k, k, k), Closure("add"))
Vec3D_mul(v, k) == Vec3D_apply(v, MulRhs(k))

\* mutation: self * I::one(), the .neg() left out
Vec3D_neg_one(v) == Vec3D_mul(v, ScalarOne)
Vec3D_neg(v) ==
    LET m == ScalarNeg(ScalarOne)
    IN IF m.ok THEN Vec3D_mul(v, m.val) ELSE Panic

Vec3D_add(v, o) == Vec3D_zip_with(v, o, Closure("add"))

\* ------------------------------------------------------------ the machine
\* op is the call made last, tuple/self/other/rhs/f its arguments (those it
\* does not take are left at their defaults), ret its outcome and calls the
\* argument lists the caller's closure f was invoked on, in the order of the
\* invocations.
NoVec == <<>>
NoScalar == ScalarZero
NoFn == Closure("none")

Vec2Ds == {Vec2D(x, y) : x \in Inputs, y \in Inputs}
Vec3Ds == {Vec3D(x, y, z) : x \in Inputs, y \in Inputs, z \in Inputs}
FlagVec2Ds == {Vec2D(x, y) : x \in Flags, y \in Flags}
FlagVec3Ds == {Vec3D(x, y, z) : x \in Flags, y \in Flags, z \in Flags}

Init ==
    /\ overflow_checks \in BOOLEAN
    /\ op = "init"
    /\ tuple = NoVec
    /\ self = NoVec
    /\ other = NoVec
    /\ rhs = NoScalar
    /\ f = NoFn
    /\ ret = Panic
    /\ calls = <<>>

\* Every operation is a pure function of its arguments and the library keeps
\* no state between calls, so a behaviour is one call from the initial state.
Idle == op = "init"

Returns(name, t, v, o, k, fn, r, log) ==
    /\ op' = name
    /\ tuple' = t
    /\ self' = v
    /\ other' = o
    /\ rhs' = k
    /\ f' = fn
    /\ ret' = r
    /\ calls' = log
    /\ UNCHANGED overflow_checks

Call_Vec2D_from_tuple ==
    /\ Idle
    /\ \E t \in Vec2Ds :
           Returns("Vec2D::from_tuple", t, NoVec, NoVec, NoScalar, NoFn,
                   Ok(Vec2D_from_tuple(t)), <<>>)

Call_Vec2D_x ==
    /\ Idle
    /\ \E v \in Vec2Ds :
           Returns("Vec2D::x", NoVec, v, NoVec, NoScalar, NoFn, Ok(Vec2D_x(v)), <<>>)

Call_Vec2D_y ==
    /\ Idle
    /\ \E v \in Vec2Ds :
           Returns("Vec2D::y", NoVec, v, NoVec, NoScalar, NoFn, Ok(Vec2D_y(v)), <<>>)

Call_Vec2D_apply ==
    /\ Idle
    /\ \E v \in Vec2Ds, fn \in UnaryFns :
           LET e == Vec2D_apply_eval(v, fn)
           IN Returns("Vec2D::apply", NoVec, v, NoVec, NoScalar, fn,
                      Vec2D_apply(v, fn), e.calls)

Call_Vec2D_zip_with ==
    /\ Idle
    /\ \/ \E v \in Vec2Ds, o \in Vec2Ds, fn \in BinaryFns :
           LET e == Vec2D_zip_with_eval(v, o, fn)
           IN Returns("Vec2D::zip_with", NoVec, v, o, NoScalar, fn,
                      Vec2D_zip_with(v, o, fn), e.calls)
       \/ \E v \in Vec2Ds, o \in FlagVec2Ds :
           LET e == Vec2D_zip_with_eval(v, o, Closure("keep_if"))
           IN Returns("Vec2D::zip_with", NoVec, v, o, NoScalar, Closure("keep_if"),
                      Vec2D_zip_with(v, o, Closure("keep_if")), e.calls)

Call_Vec2D_zero ==
    /\ Idle
    /\ Returns("Vec2D::zero", NoVec, NoVec, NoVec, NoScalar, NoFn, Ok(Vec2D_zero), <<>>)

Call_Vec2D_one ==
    /\ Idle
    /\ Returns("Vec2D::one", NoVec, NoVec, NoVec, NoScalar, NoFn, Ok(Vec2D_one), <<>>)

Call_Vec2D_mul ==
    /\ Idle
    /\ \E v \in Vec2Ds, k \in Inputs \cup {ScalarOne} :
           Returns("Vec2D::mul", NoVec, v, NoVec, k, NoFn, Vec2D_mul(v, k), <<>>)

Call_Vec2D_neg ==
    /\ Idle
    /\ \E v \in Vec2Ds :
           Returns("Vec2D::neg", NoVec, v, NoVec, NoScalar, NoFn, Vec2D_neg(v), <<>>)

Call_Vec2D_add ==
    /\ Idle
    /\ \E v \in Vec2Ds, o \in Vec2Ds \cup {Vec2D_zero} :
           Returns("Vec2D::add", NoVec, v, o, NoScalar, NoFn, Vec2D_add(v, o), <<>>)

Call_Vec3D_from_tuple ==
    /\ Idle
    /\ \E t \in Vec3Ds :
           Returns("Vec3D::from_tuple", t, NoVec, NoVec, NoScalar, NoFn,
                   Ok(Vec3D_from_tuple(t)), <<>>)

Call_Vec3D_x ==
    /\ Idle
    /\ \E v \in Vec3Ds :
           Returns("Vec3D::x", NoVec, v, NoVec, NoScalar, NoFn, Ok(Vec3D_x(v)), <<>>)

Call_Vec3D_y ==
    /\ Idle
    /\ \E v \in Vec3Ds :
           Returns("Vec3D::y", NoVec, v, NoVec, NoScalar, NoFn, Ok(Vec3D_y(v)), <<>>)

Call_Vec3D_z ==
    /\ Idle
    /\ \E v \in Vec3Ds :
           Returns("Vec3D::z", NoVec, v, NoVec, NoScalar, NoFn, Ok(Vec3D_z(v)), <<>>)

Call_Vec3D_apply ==
    /\ Idle
    /\ \E v \in Vec3Ds, fn \in UnaryFns :
           LET e == Vec3D_apply_eval(v, fn)
           IN Returns("Vec3D::apply", NoVec, v, NoVec, NoScalar, fn,
                      Vec3D_apply(v, fn), e.calls)

Call_Vec3D_zip_with ==
    /\ Idle
    /\ \/ \E v \in Vec3Ds, o \in Vec3Ds, fn \in BinaryFns :
           LET e == Vec3D_zip_with_eval(v, o, fn)
           IN Returns("Vec3D::zip_with", NoVec, v, o, NoScalar, fn,
                      Vec3D_zip_with(v, o, fn), e.calls)
       \/ \E v \in Vec3Ds, o \in FlagVec3Ds :
           LET e == Vec3D_zip_with_eval(v, o, Closure("keep_if"))
           IN Returns("Vec3D::zip_with", NoVec, v, o, NoScalar, Closure("keep_if"),
                      Vec3D_zip_with(v, o, Closure("keep_if")), e.calls)

Call_Vec3D_zero ==
    /\ Idle
    /\ Returns("Vec3D::zero", NoVec, NoVec, NoVec, NoScalar, NoFn, Ok(Vec3D_zero), <<>>)

Call_Vec3D_one ==
    /\ Idle
    /\ Returns("Vec3D::one", NoVec, NoVec, NoVec, NoScalar, NoFn, Ok(Vec3D_one), <<>>)

Call_Vec3D_mul ==
    /\ Idle
    /\ \E v \in Vec3Ds, k \in Inputs \cup {ScalarOne} :
           Returns("Vec3D::mul", NoVec, v, NoVec, k, NoFn, Vec3D_mul(v, k), <<>>)

Call_Vec3D_neg ==
    /\ Idle
    /\ \E v \in Vec3Ds :
           Returns("Vec3D::neg", NoVec, v, NoVec, NoScalar, NoFn, Vec3D_neg(v), <<>>)

Call_Vec3D_add ==
    /\ Idle
    /\ \E v \in Vec3Ds, o \in Vec3Ds \cup {Vec3D_zero} :
           Returns("Vec3D::add", NoVec, v, o, NoScalar, NoFn, Vec3D_add(v, o), <<>>)

Next ==
    \/ Call_Vec2D_from_tuple
    \/ Call_Vec2D_x
    \/ Call_Vec2D_y
    \/ Call_Vec2D_apply
    \/ Call_Vec2D_zip_with
    \/ Call_Vec2D_zero
    \/ Call_Vec2D_one
    \/ Call_Vec2D_mul
    \/ Call_Vec2D_neg
    \/ Call_Vec2D_add
    \/ Call_Vec3D_from_tuple
    \/ Call_Vec3D_x
    \/ Call_Vec3D_y
    \/ Call_Vec3D_z
    \/ Call_Vec3D_apply
    \/ Call_Vec3D_zip_with
    \/ Call_Vec3D_zero
    \/ Call_Vec3D_one
    \/ Call_Vec3D_mul
    \/ Call_Vec3D_neg
    \/ Call_Vec3D_add

Spec == Init /\ [][Next]_vars

\* ============================================================ properties
IsAdd == op \in {"Vec2D::add", "Vec3D::add"}
IsMul == op \in {"Vec2D::mul", "Vec3D::mul"}
IsNeg == op \in {"Vec2D::neg", "Vec3D::neg"}
IsApply == op \in {"Vec2D::apply", "Vec3D::apply"}
IsZipWith == op \in {"Vec2D::zip_with", "Vec3D::zip_with"}

Idx == 1 .. Len(self)

\* the operation of the arity of its operand
AddOf(a, b) == IF Len(a) = 2 THEN Vec2D_add(a, b) ELSE Vec3D_add(a, b)
MulOf(a, k) == IF Len(a) = 2 THEN Vec2D_mul(a, k) ELSE Vec3D_mul(a, k)
ZipWithOf(a, b, fn) ==
    IF Len(a) = 2 THEN Vec2D_zip_with(a, b, fn) ELSE Vec3D_zip_with(a, b, fn)
ApplyOf(a, fn) == IF Len(a) = 2 THEN Vec2D_apply(a, fn) ELSE Vec3D_apply(a, fn)
ZeroOf(a) == IF Len(a) = 2 THEN Vec2D_zero ELSE Vec3D_zero
HasMin(a) == \E i \in 1 .. Len(a) : a[i] = MinI

\* C1: a + b is the vector whose i-th component is a[i] + b[i] in the scalar
\* type's own addition, for every index i, and it is what a.zip_with(b, add)
\* gives; a + b fails exactly when one of the scalar additions fails.
C1_AddComponentwise ==
    IsAdd =>
        /\ ret.ok <=> \A i \in Idx : ScalarAdd(self[i], other[i]).ok
        /\ ret.ok =>
            /\ Len(ret.val) = Len(self)
            /\ \A i \in Idx : ret.val[i] = ScalarAdd(self[i], other[i]).val
        /\ ret = ZipWithOf(self, other, Closure("add"))

C1_Witness ==
    /\ IsAdd
    /\ ret.ok
    /\ \E i \in Idx : \E j \in Idx :
        /\ self[i] # self[j]
        /\ other[i] # other[j]
        /\ ret.val[i] # ret.val[j]
        /\ self[i] # other[i]

\* C2: v * k is the vector in which every component x of v is replaced by
\* x * k, position preserved, and it is what v.apply(|x| x * k) gives; v * k
\* fails exactly when one of the scalar multiplications fails.
C2_MulComponentwise ==
    IsMul =>
        /\ ret.ok <=> \A i \in Idx : ScalarMul(self[i], rhs).ok
        /\ ret.ok =>
            /\ Len(ret.val) = Len(self)
            /\ \A i \in Idx : ret.val[i] = ScalarMul(self[i], rhs).val
        /\ ret = ApplyOf(self, MulRhs(rhs))

C2_Witness ==
    /\ IsMul
    /\ ret.ok
    /\ rhs \notin {ScalarZero, ScalarOne}
    /\ \E i \in Idx : \E j \in Idx : ret.val[i] # ret.val[j] /\ ret.val[i] # self[i]

\* C3 as claimed: -v is v times the negation of the multiplicative identity
\* and every component of the result is the negation of v's, for every
\* component value of the bounded signed type, the minimum included.
C3_Original ==
    IsNeg =>
        /\ ret = MulOf(self, ScalarNeg(ScalarOne).val)
        /\ ret.ok
        /\ \A i \in Idx : ret.val[i] = 0 - self[i]

\* C3, amended: -v is v times the negation of the multiplicative identity.
\* When no component of v is the type's minimum the result has every
\* component negated.  A minimum component overflows in x * (-1): with
\* overflow checks -v panics, without them that component stays the minimum
\* (the others are negated).
C3_NegExceptMin ==
    IsNeg =>
        /\ ret = MulOf(self, ScalarNeg(ScalarOne).val)
        /\ ~HasMin(self) =>
            /\ ret.ok
            /\ Len(ret.val) = Len(self)
            /\ \A i \in Idx : ret.val[i] = 0 - self[i]
        /\ (HasMin(self) /\ overflow_checks) => ~ret.ok
        /\ (HasMin(self) /\ ~overflow_checks) =>
            /\ ret.ok
            /\ \A i \in Idx :
                ret.val[i] = IF self[i] = MinI THEN MinI ELSE 0 - self[i]

C3_Witness ==
    /\ op = "Vec2D::neg"
    /\ self = Vec2D(MaxI, 0 - ScalarOne)
    /\ ret = Ok(Vec2D(0 - MaxI, ScalarOne))

\* C4 as claimed: v + (-v) is the zero vector for every v.
C4_Original ==
    IsNeg => (ret.ok /\ AddOf(self, ret.val) = Ok(ZeroOf(self)))

\* C4, amended: v + (-v) is the zero vector whenever -v returns, and -v
\* returns unless a component of v is the type's minimum and the build checks
\* overflow (then -v panics and the panic propagates).
C4_NegationLaw ==
    IsNeg =>
        /\ ret.ok <=> ~(HasMin(self) /\ overflow_checks)
        /\ ret.ok => AddOf(self, ret.val) = Ok(ZeroOf(self))

C4_Witness ==
    /\ op = "Vec3D::neg"
    /\ ret.ok
    /\ HasMin(self)
    /\ \E i \in Idx : self[i] \notin {MinI, ScalarZero}
    /\ AddOf(self, ret.val) = Ok(Vec3D_zero)

\* C5: v.apply(f) returns a vector of v's arity whose i-th component is f
\* applied to v's i-th component, for every index i; it fails exactly when f
\* fails on a component.
C5_Apply ==
    IsApply =>
        /\ ret.ok <=> \A i \in Idx : Invoke1(f, i - 1, self[i]).ok
        /\ ret.ok =>
            /\ Len(ret.val) = Len(self)
            /\ \A i \in Idx : ret.val[i] = Invoke1(f, i - 1, self[i]).val

C5_Witness ==
    /\ IsApply
    /\ f.name = "add_two"
    /\ ret.ok
    /\ \A i \in Idx : \A j \in Idx : i # j => ret.val[i] # ret.val[j]

\* C6: a.zip_with(b, f) returns a vector of that arity whose i-th component
\* is f(a[i], b[i]) for every index i, a's component the first argument and
\* b's the second, whatever b's scalar type; it fails exactly when f fails on
\* a pair.
C6_ZipWith ==
    IsZipWith =>
        /\ ret.ok <=> \A i \in Idx : Invoke2(f, i - 1, self[i], other[i]).ok
        /\ ret.ok =>
            /\ Len(ret.val) = Len(self)
            /\ \A i \in Idx :
                ret.val[i] = Invoke2(f, i - 1, self[i], other[i]).val

C6_Witness ==
    /\ IsZipWith
    /\ f.name = "sub"
    /\ ret.ok
    /\ \E i \in Idx : \E j \in Idx :
        /\ ret.val[i] # ret.val[j]
        /\ ret.val[i] # ScalarSub(other[i], self[i]).val
        /\ self[i] # self[j]

\* C7: from_tuple((a, b)) is Vec2D(a, b) and from_tuple((a, b, c)) is
\* Vec3D(a, b, c); x(), y() and z() return the first, second and third
\* component the vector was built from.
C7_ConstructionOrder ==
    /\ op = "Vec2D::from_tuple" =>
        \E a \in Inputs, b \in Inputs :
            /\ tuple = <<a, b>>
            /\ ret = Ok(Vec2D(a, b))
            /\ Vec2D_x(ret.val) = a
            /\ Vec2D_y(ret.val) = b
    /\ op = "Vec3D::from_tuple" =>
        \E a \in Inputs, b \in Inputs, c \in Inputs :
            /\ tuple = <<a, b, c>>
            /\ ret = Ok(Vec3D(a, b, c))
            /\ Vec3D_x(ret.val) = a
            /\ Vec3D_y(ret.val) = b
            /\ Vec3D_z(ret.val) = c
    /\ op \in {"Vec2D::x", "Vec3D::x"} => ret = Ok(self[1])
    /\ op \in {"Vec2D::y", "Vec3D::y"} => ret = Ok(self[2])
    /\ op = "Vec3D::z" => ret = Ok(self[3])

C7_Witness ==
    /\ op = "Vec3D::from_tuple"
    /\ tuple[1] # tuple[2]
    /\ tuple[2] # tuple[3]
    /\ tuple[1] # tuple[3]
    /\ ret.val = tuple

\* C8: v + zero() is v and v * 1 is v; every component of zero() is the
\* additive identity and every component of one() the multiplicative identity
\* of the scalar type.
C8_Identity ==
    /\ (IsAdd /\ other = ZeroOf(self)) => ret = Ok(self)
    /\ (IsMul /\ rhs = ScalarOne) => ret = Ok(self)
    /\ op \in {"Vec2D::zero", "Vec3D::zero"} =>
        /\ ret.ok
        /\ Len(ret.val) = (IF op = "Vec2D::zero" THEN 2 ELSE 3)
        /\ \A i \in 1 .. Len(ret.val) : \A x \in Inputs :
            ScalarAdd(x, ret.val[i]) = Ok(x)
    /\ op \in {"Vec2D::one", "Vec3D::one"} =>
        /\ ret.ok
        /\ Len(ret.val) = (IF op = "Vec2D::one" THEN 2 ELSE 3)
        /\ \A i \in 1 .. Len(ret.val) : \A x \in Inputs :
            ScalarMul(x, ret.val[i]) = Ok(x)

C8_Witness ==
    /\ op = "Vec3D::add"
    /\ other = Vec3D_zero
    /\ self = Vec3D(MinI, MaxI, ScalarOne)
    /\ ret = Ok(self)

\* the two sides of the distributive law at a + b = ret, for the scalar k
C9_Lhs(k) == IF ret.ok THEN MulOf(ret.val, k) ELSE Panic
C9_Rhs(k) ==
    LET ak == MulOf(self, k)
        bk == MulOf(other, k)
    IN IF ak.ok /\ bk.ok THEN AddOf(ak.val, bk.val) ELSE Panic

\* C9 as claimed: (a + b) * k and (a * k) + (b * k) yield the same vector or
\* both fail.
C9_Original ==
    IsAdd => \A k \in Inputs : C9_Lhs(k) = C9_Rhs(k)

\* C9, amended: (a + b) * k == (a * k) + (b * k) whenever both sides return;
\* without overflow checks (wrapping arithmetic) both sides always return and
\* are equal; with overflow checks one side may panic while the other returns.
C9_Distributive ==
    IsAdd =>
        \A k \in Inputs :
            LET l == C9_Lhs(k)
                r == C9_Rhs(k)
            IN /\ (l.ok /\ r.ok) => l = r
               /\ ~overflow_checks => (l.ok /\ r.ok /\ l = r)

C9_Witness ==
    /\ IsAdd
    /\ ret.ok
    /\ overflow_checks
    /\ \E k \in Inputs :
        /\ k \notin {ScalarZero, ScalarOne}
        /\ C9_Lhs(k).ok
        /\ C9_Rhs(k) = C9_Lhs(k)
        /\ \E i \in Idx : C9_Lhs(k).val[i] # ScalarZero /\ self[i] # ScalarZero
                            /\ other[i] # ScalarZero

\* the invocations apply and zip_with make when no invocation fails
ComponentOrder ==
    [i \in Idx |-> IF IsApply THEN <<self[i]>> ELSE <<self[i], other[i]>>]

\* C10: apply and zip_with invoke f once per component, on x first, then y,
\* then z: when the call returns, the invocations f has seen are exactly the
\* components in that order (as many as the arity), and a counting closure
\* has seen invocation number i at component i.  When an invocation panics
\* the call unwinds there, and the invocations made are the components in
\* that order up to the failing one.
C10_InvocationOrder ==
    (IsApply \/ IsZipWith) =>
        /\ ret.ok =>
            /\ calls = ComponentOrder
            /\ Len(calls) = Len(self)
            /\ f.name = "count" => \A i \in Idx : ret.val[i][1] = i - 1
        /\ ~ret.ok =>
            /\ Len(calls) \in Idx
            /\ calls = SubSeq(ComponentOrder, 1, Len(calls))
            /\ ~Invoke(f, Len(calls) - 1, calls[Len(calls)]).ok

C10_Witness ==
    /\ op = "Vec3D::apply"
    /\ f.name = "count"
    /\ ret.ok
    /\ self[1] # self[2]
    /\ self[2] # self[3]
    /\ self[1] # self[3]
    /\ calls = << <<self[1]>>, <<self[2]>>, <<self[3]>> >>

====
